---- MODULE Spec2Model ----
(***************************************************************************)
(* DomoPy, domopy/dataset.py: the request-body synthesis of DomoDataset    *)
(* (create_meta_string_from_user_declared, create_meta_string_from_        *)
(* dataframe, create_pdp_req) and the client operations that hand the      *)
(* bodies to the HTTP session (create_ds, update_dataset_meta, replace_ds, *)
(* fetch_to_file, delete_dataset, delete_pdp).                             *)
(*                                                                         *)
(* Every call is one action: the caller is idle, calls an operation, and   *)
(* the action computes the whole handler (the requests it issues, what it  *)
(* prints, the file it writes, the value it returns or the exception it    *)
(* raises).  The caller then takes the result (Return) and is idle again.  *)
(*                                                                         *)
(* Python values: a dict is a record (a function from its keys), {} is the *)
(* function with the empty domain; an insertion-ordered dict given as an   *)
(* argument (col_types_dict) is the sequence of its items, keys distinct;  *)
(* a list is a sequence; None is the record None.                          *)
(***************************************************************************)
EXTENDS Integers, Sequences, FiniteSets, TLC

VARIABLES
  pc,        \* the caller: "idle" or "returned" (holding the last call's result)
  call,      \* the last call: its operation and its arguments
  outcome,   \* what the last call returned or raised
  requests,  \* the HTTP requests the last call issued through self._domo, in order
  printed,   \* what the last call printed, in order
  files,     \* the file system: absolute path -> text
  hashSeed,  \* the interpreter process's string-hash seed (fixed at process start)
  prevFail   \* the caller's note of the last failed descriptor build it kept

vars == <<pc, call, outcome, requests, printed, files, hashSeed, prevFail>>

(***************************************************************************)
(* Bounds of the model.                                                    *)
(***************************************************************************)
\* columns of a declared mapping or of a table
MaxCols == 2
\* entries of a users or groups list
MaxIds == 2
\* the process's hash seed is one of 0..MaxSeed
MaxSeed == 1

(***************************************************************************)
(* Values.                                                                 *)
(***************************************************************************)
None == [none |-> TRUE]

EmptyDict == [k \in {} |-> None]

Returned(v) == [kind |-> "return", value |-> v]

\* an exception of class exc; carried is the value its message is built from
Raised(exc, carried) == [kind |-> "raise", exc |-> exc, value |-> carried]

NoOutcome == [kind |-> "none"]

\* all sequences over S of length 0..n
RECURSIVE SeqsUpTo(_, _)
SeqsUpTo(S, n) ==
  IF n = 0 THEN {<<>>}
  ELSE LET shorter == SeqsUpTo(S, n - 1)
       IN shorter \cup {Append(s, x) : s \in {t \in shorter : Len(t) = n - 1}, x \in S}

\* x in list (Python: equality with some element)
InList(x, list) == \E i \in DOMAIN list : list[i] = x

\* dict.get(key, default)
DictGet(dict, key, default) == IF key \in DOMAIN dict THEN dict[key] ELSE default

(***************************************************************************)
(* create_meta_string_from_user_declared                                   *)
(***************************************************************************)
\* valid_domo_types with LONG left out
valid_domo_types_NoLong == <<"STRING", "DOUBLE", "DATE", "DATETIME">>

valid_domo_types == <<"STRING", "DOUBLE", "DATE", "DATETIME", "LONG">>

\* the type strings a caller declares: the five valid ones, and two that are
\* not ("string" differs from "STRING" in case only)
TypeStrings == {"STRING", "DOUBLE", "DATE", "DATETIME", "LONG", "BOOLEAN", "string"}

ColNames == {"Friend", "Attending"}

DsNames == {"Leonhard Euler Party", "Guests"}

DsDescrs == {"Mathematician Guest List"}

\* col_types_dict: the items of a dict, in insertion order, keys distinct
Mappings ==
  {m \in SeqsUpTo([name : ColNames, type : TypeStrings], MaxCols) :
     \A i, j \in DOMAIN m : m[i].name = m[j].name => i = j}

HashSeeds == 0 .. MaxSeed

StrIndex(s) ==
  CASE s = "STRING" -> 1 [] s = "DOUBLE" -> 2 [] s = "DATE" -> 3
    [] s = "DATETIME" -> 4 [] s = "LONG" -> 5 [] s = "BOOLEAN" -> 6
    [] OTHER -> 7

\* hash(s) of a str in a process whose hash seed is seed.  CPython salts str
\* hashes with a seed drawn at interpreter start, so the value is a function of
\* the string and of the process; here a bijection of the strings per seed.
StrHash(s, seed) == (StrIndex(s) * (1 + 9 * seed)) % 11

\* the order in which "for dtype in <set>" visits a set of strings: by hash
RECURSIVE SetIter(_, _)
SetIter(S, seed) ==
  IF S = {} THEN <<>>
  ELSE LET x == CHOOSE x \in S : \A y \in S : StrHash(x, seed) <= StrHash(y, seed)
       IN <<x>> \o SetIter(S \ {x}, seed)

\* set(col_types_dict.values())
types_for_dataset(col_types_dict) ==
  {col_types_dict[i].type : i \in DOMAIN col_types_dict}

\* membership that ignores case
IsValidDomoType_IgnoreCase(dtype) ==
  InList(dtype, valid_domo_types) \/ dtype = "string"

IsValidDomoType(dtype) == InList(dtype, valid_domo_types)

\* the validation loop: None, or the first dtype in iteration order that is not
\* in valid_domo_types (the loop raises on it)
FirstInvalid(col_types_dict, seed) ==
  LET order == SetIter(types_for_dataset(col_types_dict), seed)
      bad == SelectSeq(order, LAMBDA t : ~IsValidDomoType(t))
  IN IF bad = <<>> THEN None ELSE [dtype |-> Head(bad)]

\* [{"name": k, "type": v} for k, v in col_types_dict.items()]
DeclaredColumns(col_types_dict) ==
  [i \in DOMAIN col_types_dict |->
     [name |-> col_types_dict[i].name, type |-> col_types_dict[i].type]]

MetaJsonDict(ds_name, ds_descr, columns) ==
  [name |-> ds_name, description |-> ds_descr, rows |-> 0,
   schema |-> [columns |-> columns]]

create_meta_string_from_user_declared(ds_name, ds_descr, col_types_dict, seed) ==
  LET bad == FirstInvalid(col_types_dict, seed)
  IN IF bad # None THEN Raised("ValueError", bad.dtype)
     ELSE Returned(MetaJsonDict(ds_name, ds_descr, DeclaredColumns(col_types_dict)))

(***************************************************************************)
(* create_meta_string_from_dataframe                                       *)
(***************************************************************************)
df_domo_types ==
  [k \in {"object", "int64", "int32", "float64", "float32", "float",
          "datetime64[ns]", "datetime64[ns, tz]", "bool"} |->
     CASE k = "object" -> "STRING"
       [] k \in {"int64", "int32"} -> "LONG"
       [] k \in {"float64", "float32", "float"} -> "DOUBLE"
       [] k = "datetime64[ns]" -> "DATE"
       [] k = "datetime64[ns, tz]" -> "DATETIME"
       [] OTHER -> "STRING"]

\* str(dtype) of a column: the keys of df_domo_types and two that are not keys
NativeTypes == DOMAIN df_domo_types \cup {"datetime64[ns, UTC]", "category"}

\* a table: its columns in order (labels may repeat), and whether comparison
\* acts elementwise (a pandas DataFrame: "df != None" is a frame of booleans,
\* whose truth value raises ValueError) or yields a plain boolean
TablesOver(dtypes) ==
  [columns : SeqsUpTo([name : ColNames, dtype : dtypes], MaxCols),
   elementwise : BOOLEAN]

Tables == TablesOver(NativeTypes)

\* dataframe[col]: selection by label, every column labelled col
GetItem(dataframe, col) == SelectSeq(dataframe.columns, LAMBDA c : c.name = col)

\* a selection that always has a dtype (the first column of that label)
HasDtype_First(dataframe, col) == Len(GetItem(dataframe, col)) >= 1

\* dataframe[col].dtype: a single column has a dtype; the selection of a
\* repeated label is a frame, which has no attribute dtype
HasDtype(dataframe, col) == Len(GetItem(dataframe, col)) = 1

\* the lookup without the STRING default: an unknown tag passes through
ColType_NoDefault(dataframe, col) ==
  DictGet(df_domo_types, GetItem(dataframe, col)[1].dtype,
          GetItem(dataframe, col)[1].dtype)

ColType(dataframe, col) ==
  DictGet(df_domo_types, GetItem(dataframe, col)[1].dtype, "STRING")

\* columns.insert(0, ...) instead of columns.append(...)
InferredColumns_Prepend(dataframe) ==
  [i \in DOMAIN dataframe.columns |->
     LET c == dataframe.columns[Len(dataframe.columns) + 1 - i]
     IN [type |-> ColType(dataframe, c.name), name |-> c.name]]

InferredColumns(dataframe) ==
  [i \in DOMAIN dataframe.columns |->
     [type |-> ColType(dataframe, dataframe.columns[i].name),
      name |-> dataframe.columns[i].name]]

create_meta_string_from_dataframe(ds_name, ds_descr, dataframe) ==
  IF \E i \in DOMAIN dataframe.columns : ~HasDtype(dataframe, dataframe.columns[i].name)
  THEN Raised("AttributeError", "dtype")
  ELSE Returned(MetaJsonDict(ds_name, ds_descr, InferredColumns(dataframe)))

(***************************************************************************)
(* create_pdp_req                                                          *)
(***************************************************************************)
PdpNames == {"Only Show Attendees", "All"}

FilterLists ==
  {<<>>, <<[column |-> "Attending", values |-> <<"TRUE">>, operator |-> "EQUALS"]>>}

IdLists == SeqsUpTo({27, 42}, MaxIds)

\* the body with the groups key set unconditionally
create_pdp_req_AlwaysGroups(pdp_name, filters, groups, users) ==
  [name |-> pdp_name, filters |-> filters, users |-> users, groups |-> groups]

create_pdp_req(pdp_name, filters, groups, users) ==
  LET pdp_json_dict == [name |-> pdp_name, filters |-> filters, users |-> users]
  IN IF groups # <<>> THEN pdp_json_dict @@ [groups |-> groups] ELSE pdp_json_dict

(***************************************************************************)
(* The client operations.  Each takes the server's answers as arguments    *)
(* and yields what the call does: [outcome, requests, printed].            *)
(***************************************************************************)
\* an argument that is given
Some(x) == [some |-> x]

DatasetIds == {"ds1", "ds2"}

PdpIds == {"p1", "p2"}

domoHeaders == [ContentType |-> "text/csv"]

\* https://api.domo.com/v1/datasets/...
ApiUrl(tail) == <<"https://api.domo.com", "v1", "datasets">> \o tail

\* dataframe.to_csv(index=False, header=False): the rows of the table, as text
to_csv(dataframe) == [csv |-> "rows", index |-> FALSE, header |-> FALSE,
                      of |-> dataframe.columns]

\* "if dataframe != None:" for a dataframe that is given: a plain boolean, or,
\* when the comparison acts elementwise, a frame, whose truth value raises
AmbiguousTruth == Raised("ValueError", "The truth value of a DataFrame is ambiguous")

Done(r, reqs, out) == [outcome |-> r, requests |-> reqs, printed |-> out]

replace_ds(dataset_id, data, dataframe, data_push) ==
  IF dataframe # None /\ dataframe.some.elementwise
  THEN Done(AmbiguousTruth, <<>>, <<>>)
  ELSE LET dataset == IF dataframe # None THEN Some(to_csv(dataframe.some)) ELSE data
       IN Done(Returned(None),
               <<[method |-> "PUT", url |-> ApiUrl(<<dataset_id, "data">>),
                  data |-> dataset, headers |-> domoHeaders]>>,
               <<IF data_push.status_code = 204 THEN [text |-> "Replace Sucessful"]
                 ELSE [text |-> "Update Failed.", status_code |-> data_push.status_code]>>)

\* the derivation create_ds selects: "if col_dtypes_dict is not None: ... elif
\* dataframe is not None: ... else: pass"
CreateDsPath(dataframe, col_dtypes_dict) ==
  IF col_dtypes_dict # None THEN "declared"
  ELSE IF dataframe # None THEN "inferred" ELSE "none"

\* the derivation update_dataset_meta selects: "if dataframe != None: ... elif
\* col_dtypes_dict != None: ... else: print(...)"; the first test raises for a
\* dataframe that compares elementwise
UpdateMetaPath(dataframe, col_dtypes_dict) ==
  IF dataframe # None
  THEN IF dataframe.some.elementwise THEN "raise" ELSE "inferred"
  ELSE IF col_dtypes_dict # None THEN "declared" ELSE "none"

\* the branch of create_ds that builds meta_json_dict
CreateDsMeta(ds_name, ds_descr, dataframe, col_dtypes_dict, seed) ==
  CASE CreateDsPath(dataframe, col_dtypes_dict) = "declared" ->
         create_meta_string_from_user_declared(ds_name, ds_descr, col_dtypes_dict.some, seed)
    [] CreateDsPath(dataframe, col_dtypes_dict) = "inferred" ->
         create_meta_string_from_dataframe(ds_name, ds_descr, dataframe.some)
    [] OTHER -> Returned(EmptyDict)

\* dataset_id taken from the response whatever its status (an answer without an
\* id gives the first dataset's)
CreatedId_NoStatusCheck(created) ==
  Some(IF "id" \in DOMAIN created THEN created.id ELSE "ds1")

\* dataset_id after the POST: res['id'] when the status is 201, else still None
CreatedId(created) ==
  IF created.status_code = 201 THEN Some(created.id) ELSE None

create_ds(ds_name, ds_descr, data, dataframe, col_dtypes_dict, seed, created, data_push) ==
  LET meta == CreateDsMeta(ds_name, ds_descr, dataframe, col_dtypes_dict, seed)
      post == [method |-> "POST", url |-> ApiUrl(<<"">>), json |-> meta.value]
      dataset_id == CreatedId(created)
      out == <<IF created.status_code = 201 THEN [text |-> "Dataset Created"]
               ELSE [text |-> "Dataset creation failed.",
                     status_code |-> created.status_code]>>
  IN IF meta.kind = "raise" THEN Done(meta, <<>>, <<>>)
     ELSE IF dataframe # None /\ dataframe.some.elementwise
     THEN Done(AmbiguousTruth, <<post>>, out)
     ELSE LET dataset == IF dataframe # None THEN Some(to_csv(dataframe.some)) ELSE data
          IN IF dataset_id # None
             THEN LET push == replace_ds(dataset_id.some, dataset, None, data_push)
                  IN Done(Returned(None), <<post>> \o push.requests, out \o push.printed)
             ELSE Done(Returned(None), <<post>>, out)

update_dataset_meta(dataset_id, ds_name, ds_desc, dataframe, col_dtypes_dict, seed, updated) ==
  LET path == UpdateMetaPath(dataframe, col_dtypes_dict)
      meta == IF path = "inferred"
              THEN create_meta_string_from_dataframe(ds_name, ds_desc, dataframe.some)
              ELSE create_meta_string_from_user_declared(ds_name, ds_desc,
                                                         col_dtypes_dict.some, seed)
      put == [method |-> "PUT", url |-> ApiUrl(<<dataset_id, "">>), json |-> meta.value]
  IN IF path = "raise"
     THEN Done(AmbiguousTruth, <<>>, <<>>)
     ELSE IF path = "none"
     THEN Done(Raised("UnboundLocalError", "meta_dict"), <<>>,
               <<[text |-> "Pass in dict of column names and datatypes or a dataframe to infer column types from"]>>)
     ELSE IF meta.kind = "raise" THEN Done(meta, <<>>, <<>>)
     ELSE Done(Returned(None), <<put>>,
               <<IF updated.status_code = 200 THEN [text |-> "Metadata Updated"]
                 ELSE [text |-> "Metadata Update Failed.",
                       status_code |-> updated.status_code]>>)

delete_dataset(dataset_id, deleteDataSet) ==
  Done(Returned(None),
       <<[method |-> "DELETE", url |-> ApiUrl(<<dataset_id>>)]>>,
       <<IF deleteDataSet.status_code = 204 THEN [text |-> "DataSet Deleted"]
         ELSE [text |-> "DataSet Failed to be removed.",
               status_code |-> deleteDataSet.status_code]>>)

\* "remove_pdp is 204" compares the response object itself with 204
ResponseIs(response, n) == FALSE

delete_pdp(dataset_id, pdp_id, remove_pdp) ==
  Done(Returned(None),
       <<[method |-> "DELETE", url |-> ApiUrl(<<dataset_id, "policies", pdp_id>>)]>>,
       <<IF ResponseIs(remove_pdp, 204)
         THEN [text |-> "PDP sucessfully removed", pdp_id |-> pdp_id]
         ELSE [text |-> "Failed to delete PDP", pdp_id |-> pdp_id,
               status_code |-> remove_pdp.status_code]>>)

\* a path: absolute or not, and its components
Path(abs, parts) == [abs |-> abs, parts |-> parts]

\* os.path.dirname(os.path.realpath(sys.argv[0]))
ScriptDir == Path(TRUE, <<"app">>)

\* os.path.join(a, b): an absolute b discards a
PathJoin(a, b) == IF b.abs THEN b ELSE Path(a.abs, a.parts \o b.parts)

\* with open(path, 'w') as f: f.write(text)
WriteFile(fs, path, text) ==
  [p \in DOMAIN fs \cup {path} |-> IF p = path THEN text ELSE fs[p]]

\* fetch_to_file also yields the files it writes: the file system after the call
fetch_to_file(dataset_id, path_to_save, absolute_path, dataset_request, fs) ==
  LET get == [method |-> "GET",
              url |-> ApiUrl(<<dataset_id, "data?includeHeader=true">>)]
  IN IF dataset_request.status_code = 200
     THEN IF absolute_path
          THEN Done(Returned(None), <<get>>, <<>>) @@ [files |-> fs]
          ELSE Done(Returned(None), <<get>>, <<>>)
                 @@ [files |-> WriteFile(fs, PathJoin(ScriptDir, path_to_save),
                                         dataset_request.text)]
     ELSE Done(Returned(None), <<get>>,
               <<[text |-> "Failed to retrieve dataset.",
                  status_code |-> dataset_request.status_code]>>) @@ [files |-> fs]

(***************************************************************************)
(* The caller.                                                             *)
(***************************************************************************)
Init ==
  /\ pc = "idle"
  /\ call = [op |-> "none"]
  /\ outcome = NoOutcome
  /\ requests = <<>>
  /\ printed = <<>>
  /\ files = EmptyDict
  /\ hashSeed \in HashSeeds
  /\ prevFail = None

\* the call returns to the caller with result r, having issued reqs and printed out
Finish(c, r, reqs, out) ==
  /\ pc' = "returned"
  /\ call' = c
  /\ outcome' = r
  /\ requests' = reqs
  /\ printed' = out

UserDeclared ==
  /\ pc = "idle"
  /\ \E ds_name \in DsNames, ds_descr \in DsDescrs, col_types_dict \in Mappings :
      /\ Finish([op |-> "create_meta_string_from_user_declared", ds_name |-> ds_name,
                 ds_descr |-> ds_descr, col_types_dict |-> col_types_dict],
                create_meta_string_from_user_declared(ds_name, ds_descr, col_types_dict, hashSeed),
                <<>>, <<>>)
      /\ UNCHANGED <<files, hashSeed, prevFail>>

FromDataframe ==
  /\ pc = "idle"
  /\ \E ds_name \in DsNames, ds_descr \in DsDescrs, dataframe \in Tables :
      /\ Finish([op |-> "create_meta_string_from_dataframe", ds_name |-> ds_name,
                 ds_descr |-> ds_descr, dataframe |-> dataframe],
                create_meta_string_from_dataframe(ds_name, ds_descr, dataframe),
                <<>>, <<>>)
      /\ UNCHANGED <<files, hashSeed, prevFail>>

PdpReq ==
  /\ pc = "idle"
  /\ \E pdp_name \in PdpNames, filters \in FilterLists, groups \in IdLists, users \in IdLists :
      /\ Finish([op |-> "create_pdp_req", pdp_name |-> pdp_name, filters |-> filters,
                 groups |-> groups, users |-> users],
                Returned(create_pdp_req(pdp_name, filters, groups, users)),
                <<>>, <<>>)
      /\ UNCHANGED <<files, hashSeed, prevFail>>

\* the caller drops the result
Return ==
  /\ pc = "returned"
  /\ pc' = "idle"
  /\ call' = [op |-> "none"]
  /\ outcome' = NoOutcome
  /\ requests' = <<>>
  /\ printed' = <<>>
  /\ UNCHANGED <<files, hashSeed, prevFail>>

DeclaredFailed ==
  /\ pc = "returned"
  /\ call.op = "create_meta_string_from_user_declared"
  /\ outcome.kind = "raise"

\* the caller drops the result, keeping a note of a failed descriptor build
ReturnKeep ==
  /\ DeclaredFailed
  /\ pc' = "idle"
  /\ call' = [op |-> "none"]
  /\ outcome' = NoOutcome
  /\ requests' = <<>>
  /\ printed' = <<>>
  /\ prevFail' = [ds_name |-> call.ds_name, ds_descr |-> call.ds_descr,
                  col_types_dict |-> call.col_types_dict, raised |-> outcome]
  /\ UNCHANGED <<files, hashSeed>>

\* the program is run again: a new interpreter process, a new hash seed
Restart ==
  /\ pc = "idle"
  /\ hashSeed' \in HashSeeds
  /\ UNCHANGED <<pc, call, outcome, requests, printed, files, prevFail>>

NextSchema == UserDeclared \/ FromDataframe \/ PdpReq \/ Return

SpecSchema == Init /\ [][NextSchema]_vars

NextDeclared == UserDeclared \/ Return \/ ReturnKeep \/ Restart

SpecDeclared == Init /\ [][NextDeclared]_vars

(***************************************************************************)
(* Calls of the client operations, with the server's answers.              *)
(***************************************************************************)
\* the arguments the client operations are called with
ReqMappings ==
  {m \in Mappings : types_for_dataset(m) \subseteq {"STRING", "LONG", "BOOLEAN"}}

ReqTables == TablesOver({"object", "int64"})

DataArgs == {None, Some([csv |-> "Euler,TRUE"])}

Optional(S) == {None} \cup {Some(x) : x \in S}

\* the server's answers
Response(codes) == [status_code : codes]

CreatedResponses == [status_code : {201}, id : DatasetIds] \cup Response({400})

TextResponses == [status_code : {200, 404}, text : {"Friend,Attending", ""}]

SavePaths == {Path(FALSE, <<"out.csv">>), Path(TRUE, <<"tmp", "out.csv">>)}

\* the call did d
Did(c, d) == Finish(c, d.outcome, d.requests, d.printed)

CreateDs ==
  /\ pc = "idle"
  /\ \E ds_name \in DsNames, ds_descr \in DsDescrs, data \in DataArgs,
       dataframe \in Optional(ReqTables), col_dtypes_dict \in Optional(ReqMappings),
       created \in CreatedResponses, data_push \in Response({204, 400}) :
      /\ Did([op |-> "create_ds", ds_name |-> ds_name, ds_descr |-> ds_descr,
              data |-> data, dataframe |-> dataframe,
              col_dtypes_dict |-> col_dtypes_dict, created |-> created],
             create_ds(ds_name, ds_descr, data, dataframe, col_dtypes_dict, hashSeed,
                       created, data_push))
      /\ UNCHANGED <<files, hashSeed, prevFail>>

UpdateDatasetMeta ==
  /\ pc = "idle"
  /\ \E dataset_id \in DatasetIds, ds_name \in DsNames, ds_desc \in DsDescrs,
       dataframe \in Optional(ReqTables), col_dtypes_dict \in Optional(ReqMappings),
       updated \in Response({200, 400}) :
      /\ Did([op |-> "update_dataset_meta", dataset_id |-> dataset_id,
              ds_name |-> ds_name, ds_desc |-> ds_desc, dataframe |-> dataframe,
              col_dtypes_dict |-> col_dtypes_dict],
             update_dataset_meta(dataset_id, ds_name, ds_desc, dataframe,
                                 col_dtypes_dict, hashSeed, updated))
      /\ UNCHANGED <<files, hashSeed, prevFail>>

ReplaceDs ==
  /\ pc = "idle"
  /\ \E dataset_id \in DatasetIds, data \in DataArgs, dataframe \in Optional(ReqTables),
       data_push \in Response({204, 400}) :
      /\ Did([op |-> "replace_ds", dataset_id |-> dataset_id, data |-> data,
              dataframe |-> dataframe],
             replace_ds(dataset_id, data, dataframe, data_push))
      /\ UNCHANGED <<files, hashSeed, prevFail>>

DeleteDataset ==
  /\ pc = "idle"
  /\ \E dataset_id \in DatasetIds, deleteDataSet \in Response({204, 404}) :
      /\ Did([op |-> "delete_dataset", dataset_id |-> dataset_id,
              response |-> deleteDataSet],
             delete_dataset(dataset_id, deleteDataSet))
      /\ UNCHANGED <<files, hashSeed, prevFail>>

DeletePdp ==
  /\ pc = "idle"
  /\ \E dataset_id \in DatasetIds, pdp_id \in PdpIds, remove_pdp \in Response({204, 404}) :
      /\ Did([op |-> "delete_pdp", dataset_id |-> dataset_id, pdp_id |-> pdp_id,
              response |-> remove_pdp],
             delete_pdp(dataset_id, pdp_id, remove_pdp))
      /\ UNCHANGED <<files, hashSeed, prevFail>>

FetchToFile ==
  /\ pc = "idle"
  /\ \E dataset_id \in DatasetIds, path_to_save \in SavePaths, absolute_path \in BOOLEAN,
       dataset_request \in TextResponses :
      LET d == fetch_to_file(dataset_id, path_to_save, absolute_path, dataset_request, files)
      IN /\ Did([op |-> "fetch_to_file", dataset_id |-> dataset_id,
                 path_to_save |-> path_to_save, absolute_path |-> absolute_path,
                 response |-> dataset_request], d)
         /\ files' = d.files
         /\ UNCHANGED <<hashSeed, prevFail>>

Next == CreateDs \/ UpdateDatasetMeta \/ ReplaceDs \/ DeleteDataset \/ DeletePdp \/ Return

Spec == Init /\ [][Next]_vars

NextFetch == FetchToFile \/ Return

SpecFetch == Init /\ [][NextFetch]_vars

(***************************************************************************)
(* Properties of the descriptor builders.                                  *)
(***************************************************************************)
\* the platform's column types, as the specification enumerates them
TypeTag == {"STRING", "DOUBLE", "DATE", "DATETIME", "LONG"}

DescriptorKeys == {"name", "description", "rows", "schema"}

\* body is {name, description, rows = 0, schema: {columns: [...]}}
IsDescriptor(body) ==
  /\ DOMAIN body = DescriptorKeys
  /\ body.rows = 0
  /\ DOMAIN body.schema = {"columns"}
  /\ \A i \in DOMAIN body.schema.columns :
       DOMAIN body.schema.columns[i] = {"name", "type"}

ReturnedFrom(opname) == pc = "returned" /\ call.op = opname

AllDeclaredValid(m) == \A i \in DOMAIN m : m[i].type \in TypeTag

\* C1: a declared mapping (the empty one too) whose values are all among the
\* five column types builds: the call returns a descriptor with the given name and
\* description, rows = 0, and one {name, type} column per mapping entry, in the
\* mapping's order, each with the declared type.
C1_DeclaredValidBuilds ==
  (ReturnedFrom("create_meta_string_from_user_declared")
     /\ AllDeclaredValid(call.col_types_dict))
  => /\ outcome.kind = "return"
     /\ IsDescriptor(outcome.value)
     /\ outcome.value.name = call.ds_name
     /\ outcome.value.description = call.ds_descr
     /\ Len(outcome.value.schema.columns) = Len(call.col_types_dict)
     /\ \A i \in DOMAIN call.col_types_dict :
          /\ outcome.value.schema.columns[i].name = call.col_types_dict[i].name
          /\ outcome.value.schema.columns[i].type = call.col_types_dict[i].type

C1_Witness ==
  /\ ReturnedFrom("create_meta_string_from_user_declared")
  /\ call.col_types_dict = <<[name |-> "Friend", type |-> "LONG"],
                             [name |-> "Attending", type |-> "DATETIME"]>>
  /\ outcome.kind = "return"

\* C2: a declared mapping with a value that is not exactly one of the five
\* column types does not build: the call raises the validation error (ValueError),
\* which carries one of the mapping's values that is not a column type, and no
\* descriptor is returned.
C2_DeclaredInvalidRejected ==
  (ReturnedFrom("create_meta_string_from_user_declared")
     /\ ~AllDeclaredValid(call.col_types_dict))
  => /\ outcome.kind = "raise"
     /\ outcome.exc = "ValueError"
     /\ outcome.value \in types_for_dataset(call.col_types_dict) \ TypeTag

C2_Witness ==
  /\ ReturnedFrom("create_meta_string_from_user_declared")
  /\ call.col_types_dict = <<[name |-> "Friend", type |-> "STRING"],
                             [name |-> "Attending", type |-> "string"]>>
  /\ outcome.kind = "raise"
  /\ outcome.value = "string"

TableOrderKept ==
  /\ outcome.kind = "return"
  /\ IsDescriptor(outcome.value)
  /\ Len(outcome.value.schema.columns) = Len(call.dataframe.columns)
  /\ \A i \in DOMAIN call.dataframe.columns :
       outcome.value.schema.columns[i].name = call.dataframe.columns[i].name

DistinctLabels(dataframe) ==
  \A i, j \in DOMAIN dataframe.columns :
    dataframe.columns[i].name = dataframe.columns[j].name => i = j

DocumentedType(tag) ==
  CASE tag = "object" -> "STRING"
    [] tag = "int64" -> "LONG"
    [] tag = "int32" -> "LONG"
    [] tag = "float64" -> "DOUBLE"
    [] tag = "float32" -> "DOUBLE"
    [] tag = "float" -> "DOUBLE"
    [] tag = "datetime64[ns]" -> "DATE"
    [] tag = "datetime64[ns, tz]" -> "DATETIME"
    [] tag = "bool" -> "STRING"
    [] OTHER -> "STRING"

\* C5: in an inferred descriptor each column's type is the documented table's
\* value for the column's native type tag, STRING for a tag the table lacks, and
\* so one of the five column types.
C5_InferredTypes ==
  (ReturnedFrom("create_meta_string_from_dataframe") /\ outcome.kind = "return")
  => \A i \in DOMAIN outcome.value.schema.columns :
       /\ i \in DOMAIN call.dataframe.columns
       /\ outcome.value.schema.columns[i].type
            = DocumentedType(call.dataframe.columns[i].dtype)
       /\ outcome.value.schema.columns[i].type \in TypeTag

C5_Witness ==
  /\ ReturnedFrom("create_meta_string_from_dataframe")
  /\ outcome.kind = "return"
  /\ Len(call.dataframe.columns) = 2
  /\ call.dataframe.columns[1].dtype = "category"
  /\ call.dataframe.columns[2].dtype = "datetime64[ns]"
  /\ outcome.value.schema.columns[1].type = "STRING"
  /\ outcome.value.schema.columns[2].type = "DATE"

\* C7: the PDP request body has name, filters and users equal to the arguments
\* (users also when empty), and has a groups key, equal to the groups argument,
\* exactly when groups is not empty.
C7_PdpBody ==
  ReturnedFrom("create_pdp_req")
  => /\ outcome.kind = "return"
     /\ {"name", "filters", "users"} \subseteq DOMAIN outcome.value
     /\ DOMAIN outcome.value \subseteq {"name", "filters", "users", "groups"}
     /\ outcome.value.name = call.pdp_name
     /\ outcome.value.filters = call.filters
     /\ outcome.value.users = call.users
     /\ ("groups" \in DOMAIN outcome.value) <=> (call.groups # <<>>)
     /\ ("groups" \in DOMAIN outcome.value) => outcome.value.groups = call.groups

C7_Witness ==
  /\ ReturnedFrom("create_pdp_req")
  /\ call.groups = <<>>
  /\ call.users = <<>>
  /\ DOMAIN outcome.value = {"name", "filters", "users"}

\* C8 as stated: two calls of create_meta_string_from_user_declared with the same
\* arguments that fail, fail identically: the same error carrying the same
\* offending value.
C8_RepeatFailsIdentically ==
  (DeclaredFailed /\ prevFail # None
     /\ prevFail.ds_name = call.ds_name
     /\ prevFail.ds_descr = call.ds_descr
     /\ prevFail.col_types_dict = call.col_types_dict)
  => outcome = prevFail.raised

ColumnNames(body) == [i \in DOMAIN body.schema.columns |-> body.schema.columns[i].name]

BuildsDescriptor == ReturnedFrom("create_ds") \/ ReturnedFrom("update_dataset_meta")

\* C3 as stated: when create_ds or update_dataset_meta is called with a declared
\* mapping that holds a type outside the five column types, the call is rejected
\* (it raises) and no HTTP request has been issued, whatever data and dataframe
\* are.
C3_InvalidDeclaredNoRequest ==
  (BuildsDescriptor
     /\ call.col_dtypes_dict # None
     /\ ~AllDeclaredValid(call.col_dtypes_dict.some))
  => /\ outcome.kind = "raise"
     /\ requests = <<>>

\* C6 as stated: every JSON body create_ds or update_dataset_meta hands to the
\* HTTP session is a descriptor {name, description, rows = 0, schema: {columns}},
\* also when neither a dataframe nor a declared mapping is given.
C6_BodiesAreDescriptors ==
  BuildsDescriptor
  => \A i \in DOMAIN requests :
       "json" \in DOMAIN requests[i] => IsDescriptor(requests[i].json)

\* the file the claim names: path_to_save itself when absolute_path, else
\* path_to_save resolved against the running script's directory
C10_Target(c) ==
  IF c.absolute_path THEN c.path_to_save ELSE PathJoin(ScriptDir, c.path_to_save)

\* C10 as stated: a fetch_to_file call whose GET answers 200 writes the response
\* text to path_to_save itself when absolute_path is true and to path_to_save
\* relative to the script's directory when it is false; a call whose GET answers another
\* status writes no file.
C10_FetchWritesFile ==
  [][(pc = "idle" /\ pc' = "returned" /\ call'.op = "fetch_to_file")
       => IF call'.response.status_code = 200
          THEN files' = WriteFile(files, C10_Target(call'), call'.response.text)
          ELSE files' = files]_vars

\* the data uploads among the last call's requests: the PUTs to a data URL
DataUploads ==
  {i \in DOMAIN requests :
     requests[i].method = "PUT" /\ "data" \in DOMAIN requests[i]}

\* C11: in create_ds a data upload (the PUT of replace_ds to the dataset's data
\* URL) is issued only after the creation POST, only when that POST answered 201,
\* to the data URL of the dataset id the answer holds, and at most once; when the
\* POST answers another status no data upload is issued.
C11_UploadOnlyAfterCreated ==
  ReturnedFrom("create_ds")
  => /\ Cardinality(DataUploads) <= 1
     /\ \A i \in DataUploads :
          /\ call.created.status_code = 201
          /\ \E j \in 1 .. (i - 1) :
               requests[j].method = "POST" /\ requests[j].url = ApiUrl(<<"">>)
          /\ requests[i].url = ApiUrl(<<call.created.id, "data">>)
     /\ call.created.status_code # 201 => DataUploads = {}

C11_Witness ==
  /\ ReturnedFrom("create_ds")
  /\ call.created = [status_code |-> 201, id |-> "ds2"]
  /\ Len(requests) = 2
  /\ requests[2].method = "PUT"
  /\ requests[2].url = ApiUrl(<<"ds2", "data">>)

\* C12 as stated: when both a dataframe and a declared mapping are given, create_ds
\* and update_dataset_meta select the same derivation (both the declared one or
\* both the inferred one), so the declared mapping is validated under the same
\* conditions in both.
C12_SameDerivation ==
  (BuildsDescriptor /\ call.dataframe # None /\ call.col_dtypes_dict # None)
  => CreateDsPath(call.dataframe, call.col_dtypes_dict)
       = UpdateMetaPath(call.dataframe, call.col_dtypes_dict)

\* the removal is reported as done: the call's one printed line is the success line
ReportsRemoved(line) == Len(printed) = 1 /\ printed[1].text = line

\* C13 as stated: delete_pdp reports the removal as done exactly when the DELETE
\* answers 204 and reports a failure for every other status, as delete_dataset
\* does for its DELETE.
C13_DeleteReports ==
  /\ ReturnedFrom("delete_dataset")
       => (ReportsRemoved("DataSet Deleted") <=> call.response.status_code = 204)
  /\ ReturnedFrom("delete_pdp")
       => (ReportsRemoved("PDP sucessfully removed") <=> call.response.status_code = 204)

====
